---- MODULE Spec2Model ----
(***************************************************************************)
(* A model of the user-identity core of gradder: the User / Student /      *)
(* Parent data classes over the document store and the auth routes.        *)
(*                                                                         *)
(* Seven specifications share the state: Spec (the Student methods over   *)
(* db.students), SpecUser (the property setters of one object), SpecAuth   *)
(* (login and logout over the four user collections), SpecSub (the two     *)
(* updates of Student.add_submission), SpecRemove (Student.remove next to  *)
(* add_submission), SpecAccount (change_password and password_reset) and   *)
(* SpecLoad (load_user over collections that may hold the same _id).       *)
(*                                                                         *)
(* Text values are tuples of one-character strings, so that the regular    *)
(* expressions, str.lower and datetime.strptime are computed character by  *)
(* character.  Values whose Python type matters carry a tag t:             *)
(*   "str" a str, "int" a non-zero int, "none" None, "oid" a bson          *)
(*   ObjectId, "hash" a 60-byte bcrypt hash (bytes), "raw" other bytes.    *)
(***************************************************************************)
EXTENDS Integers, Sequences, FiniteSets, TLC

VARIABLES
    objs,      \* the Student objects alive in memory: slot -> fields
    students,  \* db.students, in insertion order
    teachers,  \* db.teachers
    admins,    \* db.admins
    parents,   \* db.parents
    courses,   \* db.courses, in insertion order
    nextOid,   \* how many identifiers the store has generated
    session,   \* the user id flask-login keeps in the session, or Anon
    sub,       \* the add_submission calls between their two updates: slot -> call
    ret        \* the outcome of the last call

vars == <<objs, students, teachers, admins, parents, courses, nextOid, session, sub, ret>>

----------------------------------------------------------------------------
(* Bounds of the model. *)

MaxObjs == 1
MaxDocs == 2
MaxGen == 2

Slots == 1..MaxObjs

----------------------------------------------------------------------------
(* Characters. *)

LowerChars == {"a", "b", "c", "d", "e", "f", "g", "x", "y", "z"}
UpperChars == {"A", "B", "C", "D", "E", "F", "G", "X", "Y", "Z"}
DigitChars == {"0", "1", "2", "3", "4", "5", "6", "7", "8", "9"}

\* str.lower, one character
LowerChar(c) ==
    CASE c = "A" -> "a" [] c = "B" -> "b" [] c = "C" -> "c" [] c = "D" -> "d"
      [] c = "E" -> "e" [] c = "F" -> "f" [] c = "G" -> "g" [] c = "X" -> "x"
      [] c = "Y" -> "y" [] c = "Z" -> "z" [] OTHER -> c

\* str.lower
RECURSIVE Lower(_)
Lower(s) == IF s = <<>> THEN <<>> ELSE <<LowerChar(Head(s))>> \o Lower(Tail(s))

DigitVal(c) ==
    CASE c = "0" -> 0 [] c = "1" -> 1 [] c = "2" -> 2 [] c = "3" -> 3
      [] c = "4" -> 4 [] c = "5" -> 5 [] c = "6" -> 6 [] c = "7" -> 7
      [] c = "8" -> 8 [] c = "9" -> 9 [] OTHER -> 0

DigitChar(n) ==
    CASE n = 0 -> "0" [] n = 1 -> "1" [] n = 2 -> "2" [] n = 3 -> "3"
      [] n = 4 -> "4" [] n = 5 -> "5" [] n = 6 -> "6" [] n = 7 -> "7"
      [] n = 8 -> "8" [] OTHER -> "9"

\* c * n
RECURSIVE Rep(_, _)
Rep(c, n) == IF n <= 0 THEN <<>> ELSE <<c>> \o Rep(c, n - 1)

Str(s) == [t |-> "str", v |-> s]
IntVal == [t |-> "int", v |-> <<>>]
NoneVal == [t |-> "none", v |-> <<>>]

----------------------------------------------------------------------------
(* The email pattern of User.email. *)

TldMin == 2
TldMax == 5

\* [a-zA-Z0-9_\-\.]
EmailChars == LowerChars \cup UpperChars \cup DigitChars \cup {"_", "-", "."}
EmailChar(c) == c \in EmailChars

\* [a-zA-Z]
Letters == LowerChars \cup UpperChars
Letter(c) == c \in Letters

\* ([a-zA-Z0-9_\-\.]+)@([a-zA-Z0-9_\-\.]+)\.([a-zA-Z]{2,5}) over the whole of s
EmailFull(s) ==
    \E i, j \in 1..Len(s) :
        /\ 1 < i /\ i + 1 < j
        /\ s[i] = "@" /\ s[j] = "."
        /\ \A k \in 1..(i - 1) : EmailChar(s[k])
        /\ \A k \in (i + 1)..(j - 1) : EmailChar(s[k])
        /\ Len(s) - j >= TldMin /\ Len(s) - j <= TldMax
        /\ \A k \in (j + 1)..Len(s) : Letter(s[k])

\* re.match(r"^...$", email): $ also matches before one trailing newline
EmailMatch(s) ==
    \/ EmailFull(s)
    \/ Len(s) > 0 /\ s[Len(s)] = "\n" /\ EmailFull(SubSeq(s, 1, Len(s) - 1))

----------------------------------------------------------------------------
(* The bio pattern of User.bio. *)

BioMaxLen == 100

\* the character class [\w \.\+\(\)\[\]\{\}\?\*\&\^\%\$\#\/\'"~<>,:;!-_=@]:
\* word characters, the listed punctuation and the range from "!" to "_"
BioChars ==
    LowerChars \cup UpperChars \cup DigitChars
      \cup {"_", " ", ".", "+", "(", ")", "[", "]", "{", "}", "?", "*", "&",
            "^", "%", "$", "#", "/", "'", "~", "<", ">", ",", ":", ";", "!",
            "-", "=", "@"}
BioChar(c) == c \in BioChars

\* re.match(r'[...]{1,100}', bio): a prefix of one or more allowed characters
BioMatch(s) == Len(s) >= 1 /\ BioChar(s[1])

----------------------------------------------------------------------------
(* datetime.strptime(s, "%d-%m-%Y"). *)

IsDigit(c) == c \in DigitChars

\* %d: 3[0-1] | [1-2]\d | 0[1-9] | [1-9] | " "[1-9]
DayTok(s) ==
    \/ Len(s) = 1 /\ IsDigit(s[1]) /\ s[1] # "0"
    \/ /\ Len(s) = 2
       /\ \/ s[1] = "3" /\ s[2] \in {"0", "1"}
          \/ s[1] \in {"1", "2"} /\ IsDigit(s[2])
          \/ s[1] \in {"0", " "} /\ IsDigit(s[2]) /\ s[2] # "0"

\* %m: 1[0-2] | 0[1-9] | [1-9]
MonthTok(s) ==
    \/ Len(s) = 1 /\ IsDigit(s[1]) /\ s[1] # "0"
    \/ /\ Len(s) = 2
       /\ \/ s[1] = "1" /\ s[2] \in {"0", "1", "2"}
          \/ s[1] = "0" /\ IsDigit(s[2]) /\ s[2] # "0"

\* %Y: \d\d\d\d
YearTok(s) == Len(s) = 4 /\ \A k \in 1..4 : IsDigit(s[k])

RECURSIVE NumVal(_)
NumVal(s) ==
    IF Len(s) = 0 THEN 0
    ELSE 10 * NumVal(SubSeq(s, 1, Len(s) - 1)) + DigitVal(s[Len(s)])

LeapYear(y) == (y % 4 = 0 /\ y % 100 # 0) \/ y % 400 = 0

DaysIn(m, y) ==
    IF m = 2 THEN (IF LeapYear(y) THEN 29 ELSE 28)
    ELSE IF m \in {4, 6, 9, 11} THEN 30 ELSE 31

\* strptime succeeds: the three fields match and datetime accepts the date
DateParses(s) ==
    \E i, j \in 1..Len(s) :
        /\ i < j /\ s[i] = "-" /\ s[j] = "-"
        /\ DayTok(SubSeq(s, 1, i - 1))
        /\ MonthTok(SubSeq(s, i + 1, j - 1))
        /\ YearTok(SubSeq(s, j + 1, Len(s)))
        /\ NumVal(SubSeq(s, j + 1, Len(s))) >= 1
        /\ NumVal(SubSeq(s, 1, i - 1))
             <= DaysIn(NumVal(SubSeq(s, i + 1, j - 1)), NumVal(SubSeq(s, j + 1, Len(s))))

DefaultBio == <<"A", " ", "s", "h", "o", "r", "t", " ", "b", "i", "o", ".">>
DefaultDob == <<"1", "4", "-", "0", "3", "-", "1", "8", "7", "9">>

----------------------------------------------------------------------------
(* bson.ObjectId and bcrypt. *)

OidStrLen == 24

HexChars == DigitChars \cup {"a", "b", "c", "d", "e", "f", "A", "B", "C", "D", "E", "F"}
HexChar(c) == c \in HexChars

\* ObjectId(s) accepts s: a str of 24 hexadecimal digits, either case
OidStrOk(s) == Len(s) = OidStrLen /\ \A k \in 1..Len(s) : HexChar(s[k])

\* ObjectId(s) for an accepted s; str() of it is its lower-case digits
Oid(s) == [t |-> "oid", v |-> Lower(s)]
OidToStr(o) == Str(o.v)

\* the n-th identifier the store generates
GenOid(n) == [t |-> "oid", v |-> Rep("0", OidStrLen - 1) \o <<DigitChar(n)>>]

Unset == [t |-> "unset", v |-> <<>>]

\* hashpw(p.encode("utf-8"), gensalt(prefix=b"2b")): 60 bytes starting $2b$;
\* the salt does not change what checkpw answers and is left out
HashPw(p) == [t |-> "hash", v |-> p]

\* checkpw(p.encode("utf-8"), h)
CheckPw(p, h) == h.t = "hash" /\ h.v = p

----------------------------------------------------------------------------
(* The User object: properties and their setters.  A setter answers with   *)
(* the exception it raised ("none" when it returned) and the object after. *)

NoExc == "none"

Result(e, o) == [exc |-> e, o |-> o]

\* an object whose attributes have not been assigned yet
Blank ==
    [email |-> <<>>, password |-> NoneVal, id |-> Unset, activated |-> FALSE,
     bio |-> <<>>, date_of_birth |-> <<>>, assignments |-> <<>>]

\* Python's "x or default" for the values modelled
OrDefault(x, d) == IF x.t = "none" \/ (x.t \in {"str", "raw"} /\ x.v = <<>>) THEN d ELSE x

\* the setter without the pattern check
email_setter_unchecked(o, email) ==
    IF email.t # "str" THEN Result("InvalidTypeException", o)
    ELSE Result(NoExc, [o EXCEPT !.email = email.v])

email_setter(o, email) ==
    IF email.t # "str" THEN Result("InvalidTypeException", o)
    ELSE IF ~EmailMatch(email.v) THEN Result("InvalidFormatException", o)
    ELSE Result(NoExc, [o EXCEPT !.email = email.v])

password_setter(o, password) ==
    IF password.t \notin {"str", "hash", "raw"} THEN Result("InvalidTypeException", o)
    ELSE IF password.t = "hash" THEN Result(NoExc, [o EXCEPT !.password = password])
    ELSE IF password.t = "raw" THEN Result("AttributeError", o)
    ELSE Result(NoExc, [o EXCEPT !.password = HashPw(password.v)])

id_setter(o, id) ==
    IF id.t \notin {"oid", "str"} THEN Result("InvalidTypeException", o)
    ELSE IF id.t = "str" /\ ~OidStrOk(id.v) THEN Result("InvalidFormatException", o)
    ELSE IF id.t = "str" THEN Result(NoExc, [o EXCEPT !.id = id])
    ELSE Result(NoExc, [o EXCEPT !.id = OidToStr(id)])

bio_setter(o, bio) ==
    IF bio.t # "str" THEN Result("InvalidTypeException", o)
    ELSE IF bio.v = <<>> THEN Result(NoExc, [o EXCEPT !.bio = DefaultBio])
    ELSE IF ~(0 < Len(bio.v) /\ Len(bio.v) <= BioMaxLen) THEN Result("InvalidFormatException", o)
    ELSE IF ~BioMatch(bio.v) THEN Result("InvalidFormatException", o)
    ELSE Result(NoExc, [o EXCEPT !.bio = bio.v])

\* the message of the type error names the undefined variable "name"
date_of_birth_setter(o, date_of_birth) ==
    IF date_of_birth.t # "str" THEN Result("NameError", o)
    ELSE IF date_of_birth.v = <<>> THEN Result(NoExc, [o EXCEPT !.date_of_birth = DefaultDob])
    ELSE IF ~DateParses(date_of_birth.v) THEN Result("InvalidFormatException", o)
    ELSE Result(NoExc, [o EXCEPT !.date_of_birth = date_of_birth.v])

\* activated is "none" (None), "true" or "false": "activated or False"
ActivatedOr(a) == a = "true"

\* User.__init__: the assignments in order, stopping at the first that
\* raises; r is what the assignment before answered
init_id(r, _id, activated) ==
    IF r.exc # NoExc THEN r
    ELSE IF _id.t = "none" THEN Result(NoExc, [r.o EXCEPT !.activated = ActivatedOr(activated)])
    ELSE id_setter([r.o EXCEPT !.activated = ActivatedOr(activated)], _id)

init_date_of_birth(r, date_of_birth, _id, activated) ==
    IF r.exc # NoExc THEN r
    ELSE init_id(date_of_birth_setter(r.o, OrDefault(date_of_birth, Str(<<>>))), _id, activated)

init_bio(r, bio, date_of_birth, _id, activated) ==
    IF r.exc # NoExc THEN r
    ELSE init_date_of_birth(bio_setter(r.o, OrDefault(bio, Str(<<>>))),
                            date_of_birth, _id, activated)

init_password(r, password, bio, date_of_birth, _id, activated) ==
    IF r.exc # NoExc THEN r
    ELSE init_bio(password_setter(r.o, OrDefault(password, Str(<<>>))),
                  bio, date_of_birth, _id, activated)

User_init(email, password, bio, date_of_birth, _id, activated) ==
    init_password(email_setter(Blank, email), password, bio, date_of_birth, _id, activated)

\* the rest of Student.__init__ once User.__init__ has answered r
init_student(r, assignments) ==
    IF r.exc # NoExc THEN r ELSE Result(NoExc, [r.o EXCEPT !.assignments = assignments])

\* Student.__init__: activated is not handed to User.__init__
Student_init(email, password, assignments, _id, activated) ==
    init_student(User_init(email, password, NoneVal, NoneVal, _id, "none"), assignments)

validate_password(o, password) == CheckPw(password, o.password)

----------------------------------------------------------------------------
(* Dictionaries and documents. *)

NoId == [t |-> "absent", v |-> <<>>]

\* User.to_dict: _id only when ObjectId(self.id) succeeds
User_to_dict(o) ==
    [email |-> o.email, password |-> o.password, activated |-> o.activated,
     _id |-> IF o.id = Unset THEN NoId ELSE Oid(o.id.v)]

Student_to_dict(o) ==
    LET super == User_to_dict(o)
    IN  [email |-> super.email,
         _id |-> super._id,
         password |-> Str(<<>>),
         assignments |-> o.assignments,
         activated |-> o.activated]

BoolArg(b) == IF b THEN "true" ELSE "false"

\* Student(**dictionary) for a dictionary of the shape Student.to_dict writes
Student_of_dict(d) ==
    Student_init(Str(d.email), d.password, d.assignments,
                 IF d._id = NoId THEN NoneVal ELSE d._id, BoolArg(d.activated))

None == [some |-> FALSE, o |-> Blank]
Some(o) == [some |-> TRUE, o |-> o]

\* the object a constructor answered, None when it raised
OrNone(r) == IF r.exc # NoExc THEN None ELSE Some(r.o)

\* Student.from_dict; found is FALSE for dictionary = None
Student_from_dict(found, d) == IF ~found THEN None ELSE OrNone(Student_of_dict(d))

----------------------------------------------------------------------------
(* The document store.  A collection is the sequence of its documents in   *)
(* insertion order; up is FALSE when the operation fails in the driver.    *)

\* the position of the first document with the email / the _id, or 0
find_by_email(coll, email) ==
    IF \E i \in 1..Len(coll) : coll[i].email = email
    THEN CHOOSE i \in 1..Len(coll) :
            coll[i].email = email /\ \A k \in 1..(i - 1) : coll[k].email # email
    ELSE 0

find_by_id(coll, id) ==
    IF \E i \in 1..Len(coll) : coll[i]._id = id
    THEN CHOOSE i \in 1..Len(coll) :
            coll[i]._id = id /\ \A k \in 1..(i - 1) : coll[k]._id # id
    ELSE 0

\* what ObjectId(id) is handed to the query: no document has the _id that
\* ObjectId(None) makes up, and a malformed str raises
QueryId(id) == IF id.t = "oid" THEN id ELSE Oid(id.v)
QueryIdOk(id) == id.t \in {"oid", "none"} \/ (id.t = "str" /\ OidStrOk(id.v))

\* find_one answered the document at position i, or None for i = 0
Doc(coll, i) == IF i # 0 THEN coll[i] ELSE Blank

Student_at(coll, i) == Student_from_dict(i # 0, Doc(coll, i))

Student_get_by_id(up, coll, id) ==
    IF ~up \/ ~QueryIdOk(id) \/ id.t = "none" THEN None
    ELSE Student_at(coll, find_by_id(coll, QueryId(id)))

\* the lookup without the except branch: a failure of the store is not
\* turned into None
Student_get_by_email_unguarded(up, coll, email) ==
    IF email.t # "str" THEN None
    ELSE Student_at(coll, find_by_email(coll, email.v))

Student_get_by_email(up, coll, email) ==
    IF ~up \/ email.t # "str" THEN None
    ELSE Student_at(coll, find_by_email(coll, email.v))

----------------------------------------------------------------------------
(* Student methods that use the store.  Each answers with the exception    *)
(* that left the method ("none" when it returned), the value returned,     *)
(* the object after the call and the collection after the call.            *)

Outcome(e, out, o, coll) == [exc |-> e, out |-> out, o |-> o, coll |-> coll]

\* insert_one: DuplicateKeyError when a document has the _id already
InsertFails(up, coll, d) == ~up \/ (d._id # NoId /\ find_by_id(coll, d._id) # 0)

\* the _id insert_one stores the document under: the document's own, or a
\* generated one when it has none
InsertedId(d, n) == IF d._id = NoId THEN GenOid(n) ELSE d._id

\* Student.add.  The except branch formats self.id into the log message.
Student_add(up, o, coll, n) ==
    LET d == Student_to_dict(o)
        inserted_id == InsertedId(d, n)
    IN  IF InsertFails(up, coll, d)
        THEN IF o.id = Unset THEN Outcome("AttributeError", "raised", o, coll)
             ELSE Outcome(NoExc, "False", o, coll)
        ELSE Outcome(NoExc, "True", id_setter(o, inserted_id).o,
                     Append(coll, [d EXCEPT !._id = inserted_id]))

\* delete_one with a filter that every document matches
delete_one_any(coll, id) == IF coll = <<>> THEN coll ELSE Tail(coll)

\* delete_one({"_id": id}): the first document with the _id goes
delete_one(coll, id) ==
    LET i == find_by_id(coll, id)
    IN  IF i = 0 THEN coll ELSE SubSeq(coll, 1, i - 1) \o SubSeq(coll, i + 1, Len(coll))

\* Student.remove.  pymongo is not imported in the module, so an exception
\* in the try block meets "except pymongo.errors.DuplicateKeyError" and
\* leaves as NameError.
Student_remove(up, o, coll) ==
    IF o.id = Unset \/ ~up THEN Outcome("NameError", "raised", o, coll)
    ELSE Outcome(NoExc, "True", o, delete_one(coll, Oid(o.id.v)))

\* update(filter, {"$set": {"activated": True}}) on the first match
set_activated(coll, id) ==
    LET i == find_by_id(coll, id)
    IN  IF i = 0 THEN coll ELSE [coll EXCEPT ![i].activated = TRUE]

\* update(filter, {"$set": {"password": p}}) on the first match
set_doc_password(coll, id, p) ==
    LET i == find_by_id(coll, id)
    IN  IF i = 0 THEN coll ELSE [coll EXCEPT ![i].password = p]

\* Student.activate: the filter is ObjectId(self._id)
Student_activate(up, o, coll) ==
    IF o.id = Unset \/ ~up THEN Outcome(NoExc, "False", o, coll)
    ELSE Outcome(NoExc, "True", [o EXCEPT !.activated = TRUE],
                 set_activated(coll, Oid(o.id.v)))

\* Student.set_password: the object's password is assigned first; the
\* filter is self.id, a str
Student_set_password(up, o, coll, password) ==
    LET r == password_setter(o, password)
    IN  IF r.exc # NoExc THEN Outcome(NoExc, "False", o, coll)
        ELSE IF o.id = Unset \/ ~up THEN Outcome(NoExc, "False", r.o, coll)
        ELSE Outcome(NoExc, "True", r.o, set_doc_password(coll, r.o.id, r.o.password))

----------------------------------------------------------------------------
(* Student.add_submission: two updates, one after the other.  A course     *)
(* document holds its _id and its assignments, each with its _id and the   *)
(* submissions pushed into it.                                             *)

\* the position of the first assignment of course document c with the _id
first_assignment(c, id) ==
    IF \E k \in 1..Len(c.assignments) : c.assignments[k]._id = id
    THEN CHOOSE k \in 1..Len(c.assignments) :
            c.assignments[k]._id = id /\ \A j \in 1..(k - 1) : c.assignments[j]._id # id
    ELSE 0

\* the filter {"_id": course, "assignments._id": assignment} over crs
Matches(c, course, assignment) == c._id = course /\ first_assignment(c, assignment) # 0

first_course(crs, course, assignment) ==
    IF \E i \in 1..Len(crs) : Matches(crs[i], course, assignment)
    THEN CHOOSE i \in 1..Len(crs) :
            Matches(crs[i], course, assignment)
              /\ \A k \in 1..(i - 1) : ~Matches(crs[k], course, assignment)
    ELSE 0

\* {"$push": {"assignments.$.submissions": dictionary}} on the first match
PushAt(crs, i, assignment, dictionary) ==
    IF i = 0 THEN crs
    ELSE [crs EXCEPT ![i].assignments[first_assignment(crs[i], assignment)].submissions =
                        Append(@, dictionary)]

push_submission(crs, course, assignment, dictionary) ==
    PushAt(crs, first_course(crs, course, assignment), assignment, dictionary)

\* {"$push": {"assignments": string}} on the first student with the _id
PushRef(coll, i, string) ==
    IF i = 0 THEN coll ELSE [coll EXCEPT ![i].assignments = Append(@, string)]

push_assignment(coll, id, string) == PushRef(coll, find_by_id(coll, id), string)

\* a call between its updates: the arguments and the submission's id
Call(course_id, assignment_id, id) ==
    [course_id |-> course_id, assignment_id |-> assignment_id, id |-> id]

\* course_id + "_" + submission.assignment_id + "_" + submission.id
unique_submission_string(call) ==
    call.course_id.v \o <<"_">> \o call.assignment_id.v \o <<"_">> \o call.id

\* the first update: submission.id = str(ObjectId()), then the push into
\* db.courses.  ObjectId(...) raises on a malformed id before the store is
\* asked; n numbers the identifier generated.
add_submission_courses(up, crs, course_id, assignment_id, n) ==
    IF ~QueryIdOk(course_id) \/ ~QueryIdOk(assignment_id)
    THEN [exc |-> "InvalidId", courses |-> crs]
    ELSE IF ~up THEN [exc |-> "PyMongoError", courses |-> crs]
    ELSE [exc |-> NoExc,
          courses |-> push_submission(crs, QueryId(course_id), QueryId(assignment_id),
                                      OidToStr(GenOid(n)).v)]

\* the second update with the first undone when the store fails
Without(submissions, id) == SelectSeq(submissions, LAMBDA x : x # id)

PullFrom(assignments, id) ==
    [k \in 1..Len(assignments) |-> [assignments[k] EXCEPT !.submissions = Without(@, id)]]

pull_submission(crs, id) ==
    [i \in 1..Len(crs) |-> [crs[i] EXCEPT !.assignments = PullFrom(@, id)]]

add_submission_students_rollback(up, o, coll, crs, call) ==
    IF call.course_id.t # "str" THEN [exc |-> "TypeError", students |-> coll, courses |-> crs]
    ELSE IF o.id = Unset THEN [exc |-> "AttributeError", students |-> coll, courses |-> crs]
    ELSE IF ~up
    THEN [exc |-> "PyMongoError", students |-> coll, courses |-> pull_submission(crs, call.id)]
    ELSE [exc |-> NoExc,
          students |-> push_assignment(coll, Oid(o.id.v), unique_submission_string(call)),
          courses |-> crs]

\* the second update: the reference string, then the push into db.students
add_submission_students(up, o, coll, crs, call) ==
    IF call.course_id.t # "str" THEN [exc |-> "TypeError", students |-> coll, courses |-> crs]
    ELSE IF o.id = Unset THEN [exc |-> "AttributeError", students |-> coll, courses |-> crs]
    ELSE IF ~up THEN [exc |-> "PyMongoError", students |-> coll, courses |-> crs]
    ELSE [exc |-> NoExc,
          students |-> push_assignment(coll, Oid(o.id.v), unique_submission_string(call)),
          courses |-> crs]

----------------------------------------------------------------------------
(* Parent, and the roles whose classes are not part of the sources. *)

\* Parent.__init__ hands id=_id to User.__init__, which has no such
\* parameter: every construction raises TypeError
Parent_init(email, _id) == Result("TypeError", Blank)

Parent_from_dict(found, d) ==
    IF ~found THEN None ELSE OrNone(Parent_init(Str(d.email), d._id))

Parent_at(coll, i) == Parent_from_dict(i # 0, Doc(coll, i))

Parent_get_by_id(up, coll, id) ==
    IF ~up \/ ~QueryIdOk(id) \/ id.t = "none" THEN None
    ELSE Parent_at(coll, find_by_id(coll, QueryId(id)))

Parent_get_by_email(up, coll, email) ==
    IF ~up \/ email.t # "str" THEN None
    ELSE Parent_at(coll, find_by_email(coll, email.v))

\* Teacher and Admin: a User built from the document, None on any failure
Other_from_dict(found, d) ==
    IF ~found THEN None
    ELSE OrNone(User_init(Str(d.email), d.password, NoneVal, NoneVal, d._id,
                          BoolArg(d.activated)))

Other_at(coll, i) == Other_from_dict(i # 0, Doc(coll, i))

Other_get_by_id(up, coll, id) ==
    IF ~up \/ ~QueryIdOk(id) \/ id.t = "none" THEN None
    ELSE Other_at(coll, find_by_id(coll, QueryId(id)))

Other_get_by_email(up, coll, email) ==
    IF ~up \/ email.t # "str" THEN None
    ELSE Other_at(coll, find_by_email(coll, email.v))

Roles == {"Student", "Teacher", "Admin", "Parent"}

Coll(role) ==
    CASE role = "Student" -> students
      [] role = "Teacher" -> teachers
      [] role = "Admin" -> admins
      [] OTHER -> parents

\* scope.get_by_email(email) and scope.get_by_id(id); up says, per
\* collection, whether the store answers
get_by_email(role, up, email) ==
    CASE role = "Student" -> Student_get_by_email(up[role], students, email)
      [] role = "Parent" -> Parent_get_by_email(up[role], parents, email)
      [] OTHER -> Other_get_by_email(up[role], Coll(role), email)

get_by_id(role, up, id) ==
    CASE role = "Student" -> Student_get_by_id(up[role], students, id)
      [] role = "Parent" -> Parent_get_by_id(up[role], parents, id)
      [] OTHER -> Other_get_by_id(up[role], Coll(role), id)

----------------------------------------------------------------------------
(* The auth routes. *)

Anon == [t |-> "anon", v |-> <<>>]
Absent == [t |-> "absent", v |-> <<>>]

NoUser == [some |-> FALSE, o |-> Blank, role |-> "none"]

\* load_user with the order of login
LoadOrder_of_login == <<"Student", "Teacher", "Admin", "Parent">>

LoadOrder == <<"Teacher", "Student", "Admin", "Parent">>
\* login with the order of load_user
LoginOrder_of_load_user == <<"Teacher", "Student", "Admin", "Parent">>

LoginOrder == <<"Student", "Teacher", "Admin", "Parent">>

\* the loop of load_user from position i of LoadOrder: the scope whose
\* get_by_id answers a user, and that user
Hit(role, u, rest) == IF u.some THEN [some |-> TRUE, o |-> u.o, role |-> role] ELSE rest

RECURSIVE first_by_id(_, _, _)
first_by_id(i, up, id) ==
    IF i > Len(LoadOrder) THEN NoUser
    ELSE Hit(LoadOrder[i], get_by_id(LoadOrder[i], up, id), first_by_id(i + 1, up, id))

\* TYPE_DICTIONARY[user._type].from_dict(user.to_dict())
Rebuild(role, o) ==
    IF role = "Student" THEN Student_from_dict(TRUE, Student_to_dict(o))
    ELSE IF role = "Parent" THEN Parent_from_dict(TRUE, User_to_dict(o))
    ELSE Other_from_dict(TRUE, User_to_dict(o))

Rebuilt(user) == IF ~user.some THEN NoUser ELSE Hit(user.role, Rebuild(user.role, user.o), NoUser)

load_user(up, id) == Rebuilt(first_by_id(1, up, id))

\* current_user: the session's user, reloaded for the request
current_user(up, sess) == IF sess = Anon THEN NoUser ELSE load_user(up, sess)

\* the loop of login from position i of LoginOrder: the scope whose
\* get_by_email answers a user, that user, and the scopes probed
Probed(hit, role) == [some |-> hit.some, o |-> hit.o, role |-> hit.role, probed |-> <<role>> \o hit.probed]

NoHit == [some |-> FALSE, o |-> Blank, role |-> "none", probed |-> <<>>]

HitOrNext(role, u, rest) ==
    IF u.some THEN [some |-> TRUE, o |-> u.o, role |-> role, probed |-> <<role>>]
    ELSE Probed(rest, role)

RECURSIVE first_by_email(_, _, _)
first_by_email(i, up, email) ==
    IF i > Len(LoginOrder) THEN NoHit
    ELSE HitOrNext(LoginOrder[i], get_by_email(LoginOrder[i], up, email),
                   first_by_email(i + 1, up, email))

Reply(e, code, msg, sess, probed, validated) ==
    [exc |-> e, code |-> code, msg |-> msg, session |-> sess,
     probed |-> probed, validated |-> validated]

\* login once the loop has answered hit: the password check and login_user
login_check(hit, sess, password) ==
    IF ~hit.some
    THEN Reply(NoExc, 400, "The user with this email does not exist.", sess, hit.probed, <<>>)
    ELSE IF password.t # "str" THEN Reply("AttributeError", 500, "", sess, hit.probed, <<>>)
    ELSE IF validate_password(hit.o, password.v)
    THEN Reply(NoExc, 200, "Log in succesful! Redirecting to dashboard...", hit.o.id,
               hit.probed, <<hit.role>>)
    ELSE Reply(NoExc, 400, "Invalid password,", sess, hit.probed, <<hit.role>>)

\* login for a client that is not authenticated
login_anonymous(up, sess, method, body) ==
    IF method = "GET" THEN Reply(NoExc, 200, "notLoggedIn", sess, <<>>, <<>>)
    ELSE IF ~body.json \/ body.email = Absent
        THEN Reply(NoExc, 400, "Not all fields satisfied", sess, <<>>, <<>>)
    ELSE IF body.email.t # "str" THEN Reply("AttributeError", 500, "", sess, <<>>, <<>>)
    ELSE IF body.password = Absent \/ body.remember_me = Absent
        THEN Reply(NoExc, 400, "Not all fields satisfied", sess, <<>>, <<>>)
    ELSE login_check(first_by_email(1, up, Str(Lower(body.email.v))), sess, body.password)

\* login without the test of current_user.is_authenticated
login_as_unchecked(user, up, sess, method, body) == login_anonymous(up, sess, method, body)

\* login.  body.json says whether request.get_json() is a JSON object.
login_as(user, up, sess, method, body) ==
    IF user.some THEN Reply(NoExc, 200, "loggedIn", sess, <<>>, <<>>)
    ELSE login_anonymous(up, sess, method, body)

login(up, sess, method, body) == login_as(current_user(up, sess), up, sess, method, body)

\* logout without logout_user()
logout_as_kept(user, sess) ==
    IF ~user.some THEN Reply(NoExc, 401, "", sess, <<>>, <<>>)
    ELSE Reply(NoExc, 200, "You have been logged out", sess, <<>>, <<>>)

\* logout for the user flask_login loaded
logout_as(user, sess) ==
    IF ~user.some THEN Reply(NoExc, 401, "", sess, <<>>, <<>>)
    ELSE Reply(NoExc, 200, "You have been logged out", Anon, <<>>, <<>>)

\* logout, behind login_required
logout(up, sess) == logout_as(current_user(up, sess), sess)

\* add of Teacher and Admin: insert_one(self.to_dict()), False when it raises
Other_add(up, o, coll, n) ==
    IF InsertFails(up, coll, User_to_dict(o)) THEN Outcome(NoExc, "False", o, coll)
    ELSE Outcome(NoExc, "True", id_setter(o, InsertedId(User_to_dict(o), n)).o,
                 Append(coll, [User_to_dict(o) EXCEPT !._id = InsertedId(User_to_dict(o), n)]))

\* user.add() for the class of the user
user_add(role, up, o, n) ==
    IF role = "Student" THEN Student_add(up[role], o, students, n)
    ELSE Other_add(up[role], o, Coll(role), n)

\* what a route that saves a user answers: the reply, and the collection
\* of the user's role after the request
Saved(e, code, msg, role, coll) ==
    [exc |-> e, code |-> code, msg |-> msg, role |-> role, coll |-> coll]

\* "if not user.add()" and the two returns after it, r being what add
\* answers
save_reply(role, r) ==
    IF r.exc # NoExc THEN Saved(r.exc, 500, "", role, r.coll)
    ELSE IF r.out = "False"
    THEN Saved(NoExc, 500, "Unknown error while changing the password.", role, r.coll)
    ELSE Saved(NoExc, 200, "Password changed", role, r.coll)

\* change_password for the user flask_login loaded; new_password is Absent
\* when the form has no such field, and a form field is a str
change_password_as(user, up, new_password, n) ==
    IF ~user.some THEN Saved(NoExc, 401, "", "none", <<>>)
    ELSE IF new_password = Absent THEN Saved(NoExc, 400, "Not all fields satisfied", "none", <<>>)
    ELSE save_reply(user.role,
                    user_add(user.role, up, password_setter(user.o, new_password).o, n))

\* change_password, behind login_required
change_password(up, sess, new_password, n) ==
    change_password_as(current_user(up, sess), up, new_password, n)

\* password_reset.  User has no attribute verify_reset_token, so the call of
\* line 231 raises AttributeError whatever the token and the form are.
password_reset_as(user, token, new_password) ==
    IF user.some THEN Saved(NoExc, 303, "Wrong route, use /change-password.", "none", <<>>)
    ELSE Saved("AttributeError", 500, "", "none", <<>>)

password_reset(up, sess, token, new_password) ==
    password_reset_as(current_user(up, sess), token, new_password)

----------------------------------------------------------------------------
(* The values the calls are made with. *)

E1 == <<"a", "@", "b", ".", "c", "d">>
E2 == <<"A", "@", "b", ".", "c", "d">>
ENewline == E1 \o <<"\n">>
ENoAt == <<"a", "b", ".", "c", "d">>
EShortTld == <<"a", "@", "b", ".", "c">>
ELongTld == <<"a", "@", "b", ".", "c", "d", "e", "f", "g", "x">>

P1 == <<"p", "w">>
P2 == <<"n", "p">>

CallerId == Rep("0", OidStrLen - 2) \o <<"a", "b">>
CallerIdUpper == Rep("0", OidStrLen - 2) \o <<"A", "B">>
ShortId == Rep("0", OidStrLen - 1)
NonHexId == Rep("0", OidStrLen - 1) \o <<"z">>

EmailInputs ==
    {Str(E1), Str(E2), Str(ENewline), Str(ENoAt), Str(EShortTld), Str(ELongTld), IntVal}
StoreEmailInputs == {Str(E1), Str(E2), IntVal}
PasswordInputs == {NoneVal, Str(<<>>), Str(P1), IntVal}
IdInputs == {Str(CallerId), Str(ShortId), Str(NonHexId), IntVal}

BioInputs ==
    {Str(<<>>), Str(<<"h", "i", "!">>), Str(<<"a", "|">>), Str(<<"|", "a">>),
     Str(Rep("a", BioMaxLen)), Str(Rep("a", BioMaxLen + 1)), IntVal}

DobInputs ==
    {Str(<<>>),
     Str(<<"2", "9", "-", "0", "2", "-", "2", "0", "0", "0">>),
     Str(<<"2", "9", "-", "0", "2", "-", "1", "9", "0", "0">>),
     Str(<<"3", "1", "-", "0", "4", "-", "2", "0", "0", "0">>),
     Str(<<"1", "-", "1", "-", "2", "0", "0", "0">>),
     Str(<<"2", "0", "0", "0", "-", "0", "1", "-", "0", "1">>),
     Str(<<"0", "1", "-", "1", "3", "-", "2", "0", "0", "0">>),
     IntVal}

Body(json, email, password, remember_me) ==
    [json |-> json, email |-> email, password |-> password, remember_me |-> remember_me]

NoBody == Body(FALSE, Absent, Absent, Absent)

LoginBodies ==
    {NoBody,
     Body(TRUE, Absent, Str(P1), Str(<<>>)),
     Body(TRUE, Str(E1), Absent, Str(<<>>)),
     Body(TRUE, Str(E1), Str(P1), Absent),
     Body(TRUE, IntVal, Str(P1), Str(<<>>)),
     Body(TRUE, Str(E1), IntVal, Str(<<>>)),
     Body(TRUE, Str(E1), Str(<<>>), Str(<<>>)),
     Body(TRUE, Str(E1), Str(P1), Str(<<>>)),
     Body(TRUE, Str(E2), Str(<<>>), Str(<<>>))}

\* the bodies of the logins next to the account routes
AccountBodies ==
    {NoBody,
     Body(TRUE, Absent, Str(P1), Str(<<>>)),
     Body(TRUE, IntVal, Str(P1), Str(<<>>)),
     Body(TRUE, Str(E1), Str(<<>>), Str(<<>>)),
     Body(TRUE, Str(E1), Str(P1), Str(<<>>)),
     Body(TRUE, Str(E1), Str(P2), Str(<<>>))}

\* which collections answer during one request
AllUp == [r \in Roles |-> TRUE]
AllDown == [r \in Roles |-> FALSE]
StudentsDown == [r \in Roles |-> r # "Student"]
Ups == {AllUp, StudentsDown}

----------------------------------------------------------------------------
(* The state machine. *)

Ret(op, slot, arg, e, out) ==
    [op |-> op, slot |-> slot, arg |-> arg, exc |-> e, out |-> out, code |-> 0,
     msg |-> "", body |-> NoBody, probed |-> <<>>, validated |-> <<>>, up |-> AllUp]

Init ==
    /\ objs = <<>>
    /\ students = <<>>
    /\ teachers = <<>>
    /\ admins = <<>>
    /\ parents = <<>>
    /\ courses = <<>>
    /\ nextOid = 0
    /\ session = Anon
    /\ sub = <<>>
    /\ ret = Ret("init", 0, NoneVal, NoExc, "")

Live == DOMAIN objs

\* the slot a new object takes: the lowest free one
FreeSlot == CHOOSE s \in Slots : s \notin Live /\ \A k \in 1..(s - 1) : k \in Live

Put(s, o) == (s :> o) @@ objs

store == <<students, teachers, admins, parents, courses, nextOid>>

\* the documents of the four user collections
UserDocs == students \o teachers \o admins \o parents

\* Student(email, first_name, last_name, password=password, _id=_id), while
\* fewer than limit objects are alive
NewStudent(limit, emails, passwords, ids) ==
    /\ Cardinality(Live) < limit
    /\ \E email \in emails, password \in passwords, _id \in ids :
         \E r \in {Student_init(email, password, <<>>, _id, "none")} :
             /\ objs' = IF r.exc = NoExc THEN Put(FreeSlot, r.o) ELSE objs
             /\ ret' = Ret("Student", FreeSlot, email, r.exc, "")
    /\ UNCHANGED <<store, session, sub>>

\* the object goes out of scope
Drop ==
    /\ \E s \in Live :
         /\ s \notin DOMAIN sub
         /\ objs' = [x \in Live \ {s} |-> objs[x]]
         /\ ret' = Ret("del", s, NoneVal, NoExc, "")
    /\ UNCHANGED <<store, session, sub>>

\* the effect of assigning val to a property of the object in slot s, r
\* being what the setter answers
Assigned(op, s, val, r) ==
    /\ objs' = Put(s, r.o)
    /\ ret' = Ret(op, s, val, r.exc, "")

SetEmail ==
    /\ \E s \in Live, val \in EmailInputs :
         \E r \in {email_setter(objs[s], val)} : Assigned("email", s, val, r)
    /\ UNCHANGED <<store, session, sub>>

SetBio ==
    /\ \E s \in Live, val \in BioInputs :
         \E r \in {bio_setter(objs[s], val)} : Assigned("bio", s, val, r)
    /\ UNCHANGED <<store, session, sub>>

SetDob ==
    /\ \E s \in Live, val \in DobInputs :
         \E r \in {date_of_birth_setter(objs[s], val)} : Assigned("date_of_birth", s, val, r)
    /\ UNCHANGED <<store, session, sub>>

SetId ==
    /\ \E s \in Live, val \in IdInputs \cup {Str(CallerIdUpper)} :
         \E r \in {id_setter(objs[s], val)} : Assigned("id", s, val, r)
    /\ UNCHANGED <<store, session, sub>>

Add ==
    /\ \E s \in Live, up \in BOOLEAN :
         \E r \in {Student_add(up, objs[s], students, nextOid)} :
             /\ Len(r.coll) <= MaxDocs
             /\ objs[s].id = Unset => nextOid < MaxGen
             /\ objs' = Put(s, r.o)
             /\ students' = r.coll
             /\ nextOid' = IF Len(r.coll) > Len(students) /\ objs[s].id = Unset
                           THEN nextOid + 1 ELSE nextOid
             /\ ret' = Ret("add", s, NoneVal, r.exc, r.out)
    /\ UNCHANGED <<teachers, admins, parents, courses, session, sub>>

\* the effect of a Student method on the object in slot s and on
\* db.students, r being what the method answers
Called(op, s, val, r) ==
    /\ objs' = Put(s, r.o)
    /\ students' = r.coll
    /\ ret' = Ret(op, s, val, r.exc, r.out)

Remove ==
    /\ \E s \in Live, up \in BOOLEAN :
         \E r \in {Student_remove(up, objs[s], students)} : Called("remove", s, NoneVal, r)
    /\ UNCHANGED <<teachers, admins, parents, courses, nextOid, session, sub>>

Activate ==
    /\ \E s \in Live, up \in BOOLEAN :
         \E r \in {Student_activate(up, objs[s], students)} : Called("activate", s, NoneVal, r)
    /\ UNCHANGED <<teachers, admins, parents, courses, nextOid, session, sub>>

SetPassword ==
    /\ \E s \in Live, up \in BOOLEAN, password \in {Str(<<>>), Str(P1), IntVal} :
         \E r \in {Student_set_password(up, objs[s], students, password)} :
             Called("set_password", s, password, r)
    /\ UNCHANGED <<teachers, admins, parents, courses, nextOid, session, sub>>

\* the effect of a Student lookup: its answer, when it is an object and the
\* caller keeps it, takes the free slot
Looked(op, key, r, keep, up) ==
    /\ objs' = IF r.some /\ keep THEN Put(FreeSlot, r.o) ELSE objs
    /\ ret' = [Ret(op, IF keep THEN FreeSlot ELSE 0, key, NoExc,
                   IF r.some THEN "Student" ELSE "None")
                  EXCEPT !.up = IF up THEN AllUp ELSE AllDown]

StoredIds == {students[i]._id : i \in 1..Len(students)}

GetById(keep) ==
    /\ keep => Live # Slots
    /\ \E up \in BOOLEAN, id \in StoredIds \cup IdInputs \cup {NoneVal} :
         \E r \in {Student_get_by_id(up, students, id)} :
             Looked("Student.get_by_id", id, r, keep, up)
    /\ UNCHANGED <<store, session, sub>>

GetByEmail(keep) ==
    /\ keep => Live # Slots
    /\ \E up \in BOOLEAN, email \in StoreEmailInputs :
         \E r \in {Student_get_by_email(up, students, email)} :
             Looked("Student.get_by_email", email, r, keep, up)
    /\ UNCHANGED <<store, session, sub>>

ParentIds == {parents[i]._id : i \in 1..Len(parents)}

ParentGetById ==
    /\ \E up \in BOOLEAN, id \in ParentIds \cup IdInputs :
         ret' = [Ret("Parent.get_by_id", 0, id, NoExc,
                     IF Parent_get_by_id(up, parents, id).some THEN "Parent" ELSE "None")
                    EXCEPT !.up = IF up THEN AllUp ELSE AllDown]
    /\ UNCHANGED <<objs, store, session, sub>>

ParentGetByEmail ==
    /\ \E up \in BOOLEAN, email \in StoreEmailInputs :
         ret' = [Ret("Parent.get_by_email", 0, email, NoExc,
                     IF Parent_get_by_email(up, parents, email).some THEN "Parent" ELSE "None")
                    EXCEPT !.up = IF up THEN AllUp ELSE AllDown]
    /\ UNCHANGED <<objs, store, session, sub>>

\* a user of another role is registered: the document User.to_dict gives
OtherDoc(email, password, n) ==
    [User_to_dict(User_init(Str(email), Str(password), NoneVal, NoneVal, NoneVal, "none").o)
        EXCEPT !._id = GenOid(n)]

MaxOther == 1

OtherAdd ==
    /\ nextOid < MaxGen
    /\ \E role \in Roles \ {"Student"} :
         /\ Len(Coll(role)) < MaxOther
         /\ teachers' = IF role = "Teacher" THEN Append(teachers, OtherDoc(E1, P1, nextOid))
                        ELSE teachers
         /\ admins' = IF role = "Admin" THEN Append(admins, OtherDoc(E1, P1, nextOid))
                      ELSE admins
         /\ parents' = IF role = "Parent" THEN Append(parents, OtherDoc(E1, P1, nextOid))
                       ELSE parents
         /\ ret' = Ret("register", 0, Str(E1), NoExc, role)
    /\ nextOid' = nextOid + 1
    /\ UNCHANGED <<objs, students, courses, session, sub>>

\* a student registers: Student(email, ..., password=password).add(), the
\* object not outliving the request
Register ==
    /\ nextOid < MaxGen
    /\ Len(students) < MaxDocs
    /\ \E email \in {E1, E2}, up \in BOOLEAN :
         \E r \in {Student_add(up, Student_init(Str(email), Str(P1), <<>>, NoneVal, "none").o,
                              students, nextOid)} :
             /\ students' = r.coll
             /\ nextOid' = IF Len(r.coll) > Len(students) THEN nextOid + 1 ELSE nextOid
             /\ ret' = Ret("add", 0, Str(email), r.exc, r.out)
    /\ UNCHANGED <<objs, teachers, admins, parents, courses, session, sub>>

\* the course the submissions are for, with one assignment
CourseId == Rep("0", OidStrLen - 2) \o <<"c", "1">>
AssignmentId == Rep("0", OidStrLen - 2) \o <<"a", "1">>

CourseDoc ==
    [_id |-> Oid(CourseId),
     assignments |-> <<[_id |-> Oid(AssignmentId), submissions |-> <<>>]>>]

\* the course is created: insert_one refuses an _id that is there already
CourseAdd ==
    /\ find_by_id(courses, CourseDoc._id) = 0
    /\ courses' = Append(courses, CourseDoc)
    /\ ret' = Ret("course", 0, OidToStr(CourseDoc._id), NoExc, "")
    /\ UNCHANGED <<objs, students, teachers, admins, parents, nextOid, session, sub>>

CourseIdInputs == {Str(CourseId), Oid(CourseId), Str(ShortId)}
AssignmentIdInputs == {Str(AssignmentId), Str(CallerId)}

\* add_submission up to and including its update of db.courses
AddSubmissionCourses ==
    /\ nextOid < MaxGen
    /\ \E s \in Live \ DOMAIN sub, up \in BOOLEAN,
          course_id \in CourseIdInputs, assignment_id \in AssignmentIdInputs :
         \E r \in {add_submission_courses(up, courses, course_id, assignment_id, nextOid)} :
             /\ courses' = r.courses
             /\ sub' = IF r.exc = NoExc
                       THEN (s :> Call(course_id, assignment_id, OidToStr(GenOid(nextOid)).v))
                              @@ sub
                       ELSE sub
             /\ ret' = Ret("add_submission", s, OidToStr(GenOid(nextOid)), r.exc, "courses")
    /\ nextOid' = nextOid + 1
    /\ UNCHANGED <<objs, students, teachers, admins, parents, session>>

\* the rest of add_submission: its update of db.students
AddSubmissionStudents ==
    /\ \E s \in DOMAIN sub, up \in BOOLEAN :
         \E r \in {add_submission_students(up, objs[s], students, courses, sub[s])} :
             /\ students' = r.students
             /\ courses' = r.courses
             /\ sub' = [x \in DOMAIN sub \ {s} |-> sub[x]]
             /\ ret' = Ret("add_submission", s, Str(sub[s].id), r.exc, "students")
    /\ UNCHANGED <<objs, teachers, admins, parents, nextOid, session>>

\* a request to login, with one of the bodies
LoginWith(ups, bodies) ==
    /\ \E up \in ups, method \in {"GET", "POST"}, body \in bodies :
         \E r \in {login(up, session, method, body)} :
             /\ method = "GET" => body = NoBody
             /\ session' = r.session
             /\ ret' = [Ret("login", 0, Str(<<>>), r.exc, method) EXCEPT
                           !.code = r.code, !.msg = r.msg, !.body = body,
                           !.probed = r.probed, !.validated = r.validated, !.up = up]
    /\ UNCHANGED <<objs, store, sub>>

Login == LoginWith(Ups, LoginBodies)

Logout ==
    /\ \E up \in Ups :
         \E r \in {logout(up, session)} :
             /\ session' = r.session
             /\ ret' = [Ret("logout", 0, NoneVal, r.exc, "GET") EXCEPT
                           !.code = r.code, !.msg = r.msg, !.up = up]
    /\ UNCHANGED <<objs, store, sub>>

\* the collection of a role after a request that answered r
After(role, r) == IF r.role = role THEN r.coll ELSE Coll(role)

\* the effect of a route that saves a user
Answered(op, arg, up, r) ==
    /\ students' = After("Student", r)
    /\ teachers' = After("Teacher", r)
    /\ admins' = After("Admin", r)
    /\ parents' = After("Parent", r)
    /\ ret' = [Ret(op, 0, arg, r.exc, "POST") EXCEPT !.code = r.code, !.msg = r.msg, !.up = up]

\* POST /change-password.  The user comes from a document and has its _id,
\* so the store generates no identifier.
ChangePassword ==
    /\ \E up \in Ups, new_password \in {Absent, Str(P2)} :
         \E r \in {change_password(up, session, new_password, nextOid)} :
             Answered("change_password", new_password, up, r)
    /\ UNCHANGED <<objs, courses, nextOid, session, sub>>

Tokens == {<<"b", "a", "d">>, <<"o", "l", "d">>}

\* POST /request-password-reset/<token>
PasswordReset ==
    /\ \E up \in Ups, token \in Tokens, new_password \in {Absent, Str(P2)} :
         \E r \in {password_reset(up, session, token, new_password)} :
             Answered("password_reset", Str(token), up, r)
    /\ UNCHANGED <<objs, courses, nextOid, session, sub>>

\* the identifiers of the user documents, as the str a session holds
UserIds == {OidToStr(UserDocs[i]._id) : i \in 1..Len(UserDocs)}

\* flask_login asks load_user for the user of a session
LoadUser ==
    /\ \E up \in Ups, id \in UserIds \cup {Str(CallerId), Str(ShortId)} :
         \E r \in {load_user(up, id)} :
             ret' = [Ret("load_user", 0, id, NoExc, IF r.some THEN r.role ELSE "None")
                        EXCEPT !.up = up]
    /\ UNCHANGED <<objs, store, session, sub>>

Next ==
    \/ NewStudent(MaxObjs, {Str(E1), Str(E2), IntVal}, {NoneVal, Str(P1), IntVal},
                  {NoneVal, Str(CallerIdUpper), Str(ShortId)})
    \/ Drop
    \/ Add
    \/ Remove
    \/ Activate
    \/ SetPassword
    \/ GetById(TRUE)
    \/ GetByEmail(TRUE)

Spec == Init /\ [][Next]_vars

\* the properties of one User object, without the store
NextUser ==
    \/ NewStudent(1, EmailInputs, PasswordInputs, {NoneVal} \cup IdInputs)
    \/ Drop
    \/ SetEmail
    \/ SetBio
    \/ SetDob
    \/ SetId

SpecUser == Init /\ [][NextUser]_vars

\* the auth routes over the store
NextAuth ==
    \/ Register
    \/ OtherAdd
    \/ GetById(FALSE)
    \/ GetByEmail(FALSE)
    \/ ParentGetById
    \/ ParentGetByEmail
    \/ Login
    \/ Logout

SpecAuth == Init /\ [][NextAuth]_vars

\* add_submission next to the other calls on the student and the store
NextSub ==
    \/ NewStudent(MaxObjs, {Str(E1)}, {Str(P1)}, {NoneVal, Str(CallerId)})
    \/ Add
    \/ CourseAdd
    \/ AddSubmissionCourses
    \/ AddSubmissionStudents

SpecSub == Init /\ [][NextSub]_vars

\* remove next to add_submission
NextRemove ==
    \/ NewStudent(MaxObjs, {Str(E1)}, {Str(P1)}, {NoneVal})
    \/ Drop
    \/ Add
    \/ Remove
    \/ CourseAdd
    \/ AddSubmissionCourses
    \/ AddSubmissionStudents

SpecRemove == Init /\ [][NextRemove]_vars

\* the routes that change a password, for registered users with a session
NextAccount ==
    \/ Register
    \/ OtherAdd
    \/ LoginWith(Ups, AccountBodies)
    \/ Logout
    \/ ChangePassword
    \/ PasswordReset

SpecAccount == Init /\ [][NextAccount]_vars

\* load_user over collections that may hold the same _id
NextLoad ==
    \/ NewStudent(MaxObjs, {Str(E1)}, {Str(P1)}, {NoneVal, OidToStr(GenOid(0))})
    \/ Drop
    \/ Add
    \/ OtherAdd
    \/ LoadUser

SpecLoad == Init /\ [][NextLoad]_vars

----------------------------------------------------------------------------
(* The properties. *)


\* C1: in every reachable state the password of every User object and the
\* password field of every user document in the store is a password hash,
\* never the plaintext and never an empty or placeholder string.
C1_PasswordHashed ==
    /\ \A s \in DOMAIN objs : objs[s].password.t = "hash"
    /\ \A i \in 1..Len(UserDocs) : UserDocs[i].password.t = "hash"

\* C2: after construction and after every assignment to email the stored
\* email is a string matching the pattern; assigning a non-string raises
\* InvalidTypeException, assigning a non-matching string raises
\* InvalidFormatException, and both leave the stored email as it was.
C2_EmailValidated ==
    [][/\ \A s \in DOMAIN objs' : EmailMatch(objs'[s].email)
       /\ ret'.op = "Student" /\ ret'.arg.t # "str" =>
              ret'.exc = "InvalidTypeException" /\ objs' = objs
       /\ ret'.op = "Student" /\ ret'.arg.t = "str" /\ ~EmailMatch(ret'.arg.v) =>
              ret'.exc = "InvalidFormatException" /\ objs' = objs
       /\ ret'.op = "email" /\ ret'.arg.t # "str" =>
              ret'.exc = "InvalidTypeException" /\ objs' = objs
       /\ ret'.op = "email" /\ ret'.arg.t = "str" /\ ~EmailMatch(ret'.arg.v) =>
              ret'.exc = "InvalidFormatException" /\ objs' = objs
       /\ ret'.op = "email" /\ ret'.arg.t = "str" /\ EmailMatch(ret'.arg.v) =>
              ret'.exc = NoExc /\ objs'[ret'.slot].email = ret'.arg.v]_vars

\* an assignment of a string without "@" was refused and the object still
\* holds the email it had
C2_Witness ==
    /\ ret.op = "email" /\ ret.arg = Str(ENoAt) /\ ret.exc = "InvalidFormatException"
    /\ ret.slot \in DOMAIN objs /\ objs[ret.slot].email = E2

\* C3: no two documents of the user collections hold the same email.
C3_EmailUnique ==
    \A i, j \in 1..Len(UserDocs) : i # j => UserDocs[i].email # UserDocs[j].email

\* C4: once the id of an object is set, no operation on the object changes it.
C4_IdImmutable ==
    [][\A s \in DOMAIN objs \cap DOMAIN objs' :
          objs[s].id # Unset => objs'[s].id = objs[s].id]_vars

\* the identifiers the store has generated
Generated == {GenOid(n) : n \in 0..(nextOid - 1)}

\* C5: when add returns True the student's id is the _id the document was
\* inserted under, that _id was generated by the store, and get_by_id on it
\* answers a student with the same email.
C5_IdStoreGenerated ==
    ret.op = "add" /\ ret.out = "True" /\ ret.slot \in DOMAIN objs =>
        /\ objs[ret.slot].id.t = "str"
        /\ \E i \in 1..Len(students) :
              /\ students[i]._id = Oid(objs[ret.slot].id.v)
              /\ students[i].email = objs[ret.slot].email
        /\ Oid(objs[ret.slot].id.v) \in Generated
        /\ Student_get_by_id(TRUE, students, objs[ret.slot].id).some
        /\ Student_get_by_id(TRUE, students, objs[ret.slot].id).o.email
              = objs[ret.slot].email

\* a POST to login by a client that is not authenticated, with the three
\* fields in a JSON object and a string for the email
PostedLogin ==
    /\ ret.op = "login" /\ ret.out = "POST" /\ ret.msg # "loggedIn"
    /\ ret.body.json
    /\ ret.body.email # Absent /\ ret.body.password # Absent /\ ret.body.remember_me # Absent
    /\ ret.body.email.t = "str"

\* what the lookup of a role answers for the lowercased email of the request
Answer(role) == get_by_email(role, ret.up, Str(Lower(ret.body.email.v)))

\* C6: login probes Student, Teacher, Admin, Parent in this order by the
\* lowercased email and stops at the first role that answers a user; only
\* that user's password is validated, and the session is authenticated as
\* that user, with response 200, exactly when the password validates.  No
\* later role is probed after a match, also when the password is wrong.
C6_ProbeOrder ==
    PostedLogin =>
        /\ Len(ret.probed) \in 1..4
        /\ ret.probed = SubSeq(<<"Student", "Teacher", "Admin", "Parent">>, 1, Len(ret.probed))
        /\ \A i \in 1..(Len(ret.probed) - 1) : ~Answer(ret.probed[i]).some
        /\ \A j \in 1..Len(ret.validated) : ret.validated[j] = ret.probed[Len(ret.probed)]
        /\ IF Answer(ret.probed[Len(ret.probed)]).some
           THEN (ret.code = 200 /\ session = Answer(ret.probed[Len(ret.probed)]).o.id)
                    <=> /\ ret.body.password.t = "str"
                        /\ validate_password(Answer(ret.probed[Len(ret.probed)]).o,
                                             ret.body.password.v)
           ELSE Len(ret.probed) = 4 /\ ret.validated = <<>> /\ ret.code # 200

\* a teacher is found after db.students had no match and is logged in, while
\* an admin with the same email is never probed
C6_Witness ==
    /\ PostedLogin /\ ret.code = 200
    /\ ret.probed = <<"Student", "Teacher">> /\ ret.validated = <<"Teacher">>
    /\ session # Anon
    /\ \E i \in 1..Len(admins) : admins[i].email = Lower(ret.body.email.v)

\* some field of the login request is missing, or the body is no JSON object
FieldMissing(body) ==
    ~body.json \/ body.email = Absent \/ body.password = Absent \/ body.remember_me = Absent

\* C7: every failed login answers 400 with "Not all fields satisfied" for
\* a body that is no JSON object or lacks a field, and otherwise with "The
\* user with this email does not exist." or "Invalid password,"; the session
\* is left as it was, unauthenticated.
C7_FailedLogin400 ==
    [][ret'.op = "login" /\ ret'.out = "POST" /\ ret'.code # 200 =>
          /\ ret'.code = 400
          /\ session' = session
          /\ IF FieldMissing(ret'.body) THEN ret'.msg = "Not all fields satisfied"
             ELSE ret'.msg \in {"The user with this email does not exist.",
                                "Invalid password,"}]_vars

\* the lookup by id has a document to answer with
IdMatches(coll, id) ==
    \E i \in 1..Len(coll) :
        \/ id.t = "oid" /\ coll[i]._id = id
        \/ id.t = "str" /\ OidStrOk(id.v) /\ coll[i]._id = Oid(id.v)

EmailMatches(coll, email) ==
    \E i \in 1..Len(coll) : email.t = "str" /\ coll[i].email = email.v

\* C8: the lookups of Student and Parent never raise; they answer None when
\* no document matches, when the store fails and when the document cannot
\* be made into an object (every Parent document), and login answers "The
\* user with this email does not exist." when each role either fails or has
\* no user for the email.
C8_LookupsAnswerNone ==
    /\ ret.op \in {"Student.get_by_id", "Student.get_by_email",
                   "Parent.get_by_id", "Parent.get_by_email"} => ret.exc = NoExc
    /\ ret.op = "Student.get_by_id" /\ (~ret.up["Student"] \/ ~IdMatches(students, ret.arg))
          => ret.out = "None"
    /\ ret.op = "Student.get_by_email" /\ (~ret.up["Student"] \/ ~EmailMatches(students, ret.arg))
          => ret.out = "None"
    /\ ret.op \in {"Parent.get_by_id", "Parent.get_by_email"} => ret.out = "None"
    /\ PostedLogin
          /\ (\A role \in {"Student", "Teacher", "Admin"} :
                 ~ret.up[role] \/ ~EmailMatches(Coll(role), Str(Lower(ret.body.email.v))))
          => ret.code = 400 /\ ret.msg = "The user with this email does not exist."

\* db.students holds the user, the store fails, and login says that the user
\* does not exist
C8_Witness ==
    /\ PostedLogin /\ ~ret.up["Student"] /\ ret.up["Teacher"]
    /\ EmailMatches(students, Str(Lower(ret.body.email.v)))
    /\ ret.code = 400 /\ ret.msg = "The user with this email does not exist."

\* some assignment of some course in crs holds the submission
Held(crs, id) ==
    \E i \in 1..Len(crs) : \E k \in 1..Len(crs[i].assignments) :
        \E j \in 1..Len(crs[i].assignments[k].submissions) :
            crs[i].assignments[k].submissions[j] = id

\* some student document in coll holds the reference string
Referenced(coll, string) ==
    \E i \in 1..Len(coll) : \E j \in 1..Len(coll[i].assignments) :
        coll[i].assignments[j] = string

\* the reference string ends with the submission's id
RefersTo(string, id) ==
    Len(string) >= Len(id) /\ SubSeq(string, Len(string) - Len(id) + 1, Len(string)) = id

\* the ids given to submissions so far
SubmissionIds(n) == {OidToStr(GenOid(k)).v : k \in 0..(n - 1)}

\* C9: add_submission pushes into db.courses first and into db.students
\* second.  The first update puts the submission into the course that
\* matches and leaves db.students alone; between the two no student document
\* refers to the submission; a submission a course holds is never taken out
\* again; and when the second update fails both collections stay as they
\* are, the first update not undone.
C9_NoRollback ==
    [][/\ ret'.op = "add_submission" /\ ret'.out = "courses" /\ ret'.exc = NoExc =>
              /\ students' = students
              /\ ret'.slot \in DOMAIN sub'
              /\ first_course(courses, QueryId(sub'[ret'.slot].course_id),
                              QueryId(sub'[ret'.slot].assignment_id)) # 0
                     => Held(courses', sub'[ret'.slot].id)
       /\ \A s \in DOMAIN sub' :
              ~Referenced(students', unique_submission_string(sub'[s]))
       /\ \A id \in SubmissionIds(nextOid') : Held(courses, id) => Held(courses', id)
       /\ ret'.op = "add_submission" /\ ret'.out = "students" /\ ret'.exc # NoExc
              => courses' = courses /\ students' = students]_vars

\* the second update failed in the store: the course holds the submission,
\* the student's document is there and does not refer to it
C9_Witness ==
    /\ ret.op = "add_submission" /\ ret.out = "students" /\ ret.exc = "PyMongoError"
    /\ sub = <<>>
    /\ Held(courses, ret.arg.v)
    /\ ret.slot \in DOMAIN objs /\ IdMatches(students, objs[ret.slot].id)
    /\ \A i \in 1..Len(students) : \A j \in 1..Len(students[i].assignments) :
          ~RefersTo(students[i].assignments[j], ret.arg.v)

\* every character of the bio is of the allowed set
BioAllowed(s) == \A k \in 1..Len(s) : BioChar(s[k])

\* C10: assigning a bio of more than 100 characters or with a character
\* outside the allowed set, or a date of birth that is no valid DD-MM-YYYY
\* date, raises InvalidFormatException; assigning a non-string raises
\* InvalidTypeException; either leaves the stored value as it was, and the
\* empty string stores the default.
C10_BioDobValidated ==
    [][/\ ret'.op \in {"bio", "date_of_birth"} /\ ret'.arg.t # "str" =>
              ret'.exc = "InvalidTypeException" /\ objs' = objs
       /\ ret'.op = "bio" /\ ret'.arg.t = "str" /\ ret'.arg.v # <<>>
              /\ (Len(ret'.arg.v) > BioMaxLen \/ ~BioAllowed(ret'.arg.v)) =>
              ret'.exc = "InvalidFormatException" /\ objs' = objs
       /\ ret'.op = "date_of_birth" /\ ret'.arg.t = "str" /\ ret'.arg.v # <<>>
              /\ ~DateParses(ret'.arg.v) =>
              ret'.exc = "InvalidFormatException" /\ objs' = objs
       /\ ret'.op = "bio" /\ ret'.arg = Str(<<>>) =>
              ret'.exc = NoExc /\ objs'[ret'.slot].bio = DefaultBio
       /\ ret'.op = "date_of_birth" /\ ret'.arg = Str(<<>>) =>
              ret'.exc = NoExc /\ objs'[ret'.slot].date_of_birth = DefaultDob]_vars

\* the status a POST to login answers to a client without a session
LoginCode(email, password) ==
    login(AllUp, Anon, "POST", Body(TRUE, Str(email), password, Str(<<>>))).code

\* C11: a change_password request of a logged-in user whose document is in
\* the store answers 200 'Password changed' when the form has new_password,
\* and afterwards a login with new_password succeeds and one with the old
\* password fails; without new_password it answers 400 and the store is
\* unchanged.
C11_PasswordChanged ==
    [][ret'.op = "change_password" =>
          \A user \in {current_user(ret'.up, session)}, p \in {ret'.arg} :
              user.some =>
                  IF p = Absent THEN ret'.code = 400 /\ UserDocs' = UserDocs
                  ELSE /\ ret'.code = 200
                       /\ ret'.msg = "Password changed"
                       /\ LoginCode(user.o.email, p)' = 200
                       /\ LoginCode(user.o.email, Str(P1))' = 400]_vars

\* the position in db.students of the document of the object in slot s
DocOf(s) == find_by_id(students, Oid(objs[s].id.v))

\* C12: whenever set_password(p) has returned True for a student that
\* exists in the store, the password of the student's document is a hash of
\* p and the student reloaded with get_by_id validates p.
C12_SetPasswordStored ==
    ret.op = "set_password" /\ ret.out = "True" /\ ret.slot \in DOMAIN objs
      /\ DocOf(ret.slot) # 0 =>
        /\ students[DocOf(ret.slot)].password = HashPw(ret.arg.v)
        /\ validate_password(Student_get_by_id(TRUE, students, objs[ret.slot].id).o, ret.arg.v)

\* C13: when activate has returned True for a student whose document is in
\* the store, the document and the object have activated = True, and the
\* student loaded from the store by get_by_id, get_by_email and load_user
\* reports activated = True.
C13_ActivatedKept ==
    ret.op = "activate" /\ ret.out = "True" /\ ret.slot \in DOMAIN objs
      /\ DocOf(ret.slot) # 0 =>
        /\ students[DocOf(ret.slot)].activated
        /\ objs[ret.slot].activated
        /\ Student_at(students, DocOf(ret.slot)).o.activated
        /\ Student_get_by_id(TRUE, students, objs[ret.slot].id).o.activated
        /\ load_user(AllUp, objs[ret.slot].id).o.activated

\* C14: a password_reset request of an authenticated client answers 303, one
\* of a client that is not authenticated with a token that does not verify
\* answers 410, and in both cases no user document is modified.  No token
\* of the requests made here verifies.
C14_ResetGuarded ==
    [][ret'.op = "password_reset" =>
          \A user \in {current_user(ret'.up, session)} :
              /\ UserDocs' = UserDocs
              /\ ret'.exc = NoExc
              /\ ret'.code = IF user.some THEN 303 ELSE 410]_vars

\* C15: logout answers 200 only to an authenticated client and then leaves
\* the session unauthenticated, any other logout answers 401 and leaves the
\* session as it is, and no logout modifies a user document; a session that
\* is unauthenticated answers loggedIn = False to a GET on login, and
\* becomes authenticated only by a POST to login that answers 200.
C15_LogoutEndsSession ==
    [][/\ ret'.op = "logout" =>
             \A user \in {current_user(ret'.up, session)} :
                 /\ UserDocs' = UserDocs
                 /\ IF user.some THEN ret'.code = 200 /\ session' = Anon
                    ELSE ret'.code = 401 /\ session' = session
       /\ session' = Anon =>
             \A up \in Ups : login(up, session, "GET", NoBody)'.msg = "notLoggedIn"
       /\ session = Anon /\ session' # Anon =>
             ret'.op = "login" /\ ret'.out = "POST" /\ ret'.code = 200]_vars

\* a logout has ended the session of a logged-in user
C15_Witness ==
    /\ ret.op = "logout" /\ ret.code = 200 /\ ret.msg = "You have been logged out"
    /\ session = Anon
    /\ Len(UserDocs) > 0

\* the class of the first role, in the order Teacher, Student, Admin,
\* Parent, whose get_by_id answers a user for the id
FirstAnswer(up, id) ==
    IF get_by_id("Teacher", up, id).some THEN "Teacher"
    ELSE IF get_by_id("Student", up, id).some THEN "Student"
    ELSE IF get_by_id("Admin", up, id).some THEN "Admin"
    ELSE IF get_by_id("Parent", up, id).some THEN "Parent"
    ELSE "None"

\* C16: load_user(id) answers a user of the class of the first role, in the
\* order Teacher, Student, Admin, Parent, whose get_by_id answers a user,
\* and None when no role answers one.
C16_LoadOrder ==
    ret.op = "load_user" => ret.out = FirstAnswer(ret.up, ret.arg)

\* load_user has answered a Teacher for an id that a student has too
C16_Witness ==
    /\ ret.op = "load_user" /\ ret.out = "Teacher"
    /\ Student_get_by_id(TRUE, students, ret.arg).some

\* C17: add and remove never raise; when one of them returns False the
\* students collection and the student's id are what they were.
C17_FailuresReturnFalse ==
    [][\A s \in {ret'.slot} :
          ret'.op \in {"add", "remove"} /\ s \in DOMAIN objs =>
              /\ ret'.exc = NoExc
              /\ ret'.out \in {"True", "False"}
              /\ ret'.out = "False" => students' = students /\ objs'[s].id = objs[s].id]_vars

\* the documents of coll without those of the _id
Others(coll, id) == SelectSeq(coll, LAMBDA d : d._id # id)

\* C18: when remove has returned True, db.students holds no document of the
\* student's id and get_by_id answers None for it, the other student
\* documents and the other collections, db.courses with the submissions
\* among them, are what they were; and remove returns True whenever it
\* returns, a document matching or not.
C18_RemoveFrame ==
    [][\A s \in {ret'.slot} :
          ret'.op = "remove" /\ ret'.exc = NoExc /\ s \in DOMAIN objs =>
              /\ ret'.out = "True"
              /\ objs[s].id # Unset
              /\ students' = Others(students, Oid(objs[s].id.v))
              /\ \A i \in 1..Len(students') : students'[i]._id # Oid(objs[s].id.v)
              /\ ~Student_get_by_id(TRUE, students', objs[s].id).some
              /\ <<teachers, admins, parents, courses>>' = <<teachers, admins, parents, courses>>
              /\ objs' = objs]_vars

\* remove has returned True for a student that add had stored: the
\* student's document is gone and a course holds a submission that no
\* student document refers to
C18_Witness ==
    /\ ret.op = "remove" /\ ret.out = "True" /\ ret.slot \in DOMAIN objs
    /\ sub = <<>>
    /\ Oid(objs[ret.slot].id.v) \in Generated
    /\ ~IdMatches(students, objs[ret.slot].id)
    /\ \E id \in SubmissionIds(nextOid) :
          /\ Held(courses, id)
          /\ \A i \in 1..Len(students) : \A j \in 1..Len(students[i].assignments) :
                ~RefersTo(students[i].assignments[j], id)

\* C19: a login request of an authenticated client, GET or POST and
\* whatever its body, answers 200 with loggedIn = True, probes no
\* collection, validates no password and leaves the session as it is; a GET
\* of a client that is not authenticated answers loggedIn = False and
\* leaves the session as it is.
C19_AuthenticatedLogin ==
    [][ret'.op = "login" =>
          \A user \in {current_user(ret'.up, session)} :
              user.some \/ ret'.out = "GET" =>
                  /\ ret'.exc = NoExc
                  /\ ret'.code = 200
                  /\ ret'.msg = IF user.some THEN "loggedIn" ELSE "notLoggedIn"
                  /\ ret'.probed = <<>>
                  /\ ret'.validated = <<>>
                  /\ session' = session
                  /\ UserDocs' = UserDocs]_vars

\* a logged-in client has posted the credentials of a user to login and was
\* answered with loggedIn = True
C19_Witness ==
    /\ ret.op = "login" /\ ret.out = "POST" /\ ret.msg = "loggedIn"
    /\ ret.body.email = Str(E1) /\ ret.body.password = Str(P1)
    /\ session # Anon
    /\ EmailMatches(UserDocs, ret.body.email)

\* C20: a login that succeeds for a student was made with the password the
\* student was created with.  Every student here is created with the
\* password P1 and no later call sets another one.
C20_OnlySetPasswords ==
    ret.op = "login" /\ ret.out = "POST" /\ ret.code = 200 /\ ret.validated = <<"Student">> =>
        ret.body.password = Str(P1)

====
